---- MODULE Spec2Model ----
(***************************************************************************)
(* A model of google/cloud/bigtable/table.cc: the retry loops of           *)
(* Table::Apply and Table::BulkApply, the row reader built by              *)
(* Table::ReadRows and the single-row lookup Table::ReadRow.               *)
(*                                                                         *)
(* table.cc is modelled statement by statement.  The collaborators it      *)
(* calls but that are not part of the sources at hand (the retry, backoff  *)
(* and idempotency policies, internal::BulkMutator, RowReader) are         *)
(* modelled from their documented contract; every such definition says so. *)
(***************************************************************************)
EXTENDS Integers, Naturals, Sequences, FiniteSets, TLC

(***************************************************************************)
(* Bounds of the model.                                                    *)
(***************************************************************************)
MaxRetryBound == 3
MaxMutations == 2
MaxEntries == 2
MaxKey == 3
MaxElements == 3

(***************************************************************************)
(* Status codes.  grpc::Status carries a code; google::cloud::Status a     *)
(* code and a message.                                                     *)
(***************************************************************************)
TransientCodes == {"UNAVAILABLE", "ABORTED"}
PermanentCodes == {"PERMISSION_DENIED"}
FailureCodes == TransientCodes \cup PermanentCodes
StatusCodes == {"OK"} \cup FailureCodes

OkStatus == [code |-> "OK", message |-> ""]

\* bigtable::internal::MakeStatusFromRpcError(code, message)
MakeStatusFromRpcError(code, message) == [code |-> code, message |-> message]

ApplyErrorMessage ==
    "Permanent (or too many transient) errors in Table::Apply()"

(***************************************************************************)
(* The policy set.                                                         *)
(***************************************************************************)
\* RPCRetryPolicy: failure_count failures seen so far, at most `bound`
\* attempts are allowed in total.
RetryPolicy(bound) == [failure_count |-> 0, bound |-> bound]

\* RPCRetryPolicy::OnFailure, the verdict: true = the caller may retry.
OnFailure(policy, s) ==
    /\ s \in TransientCodes
    /\ policy.failure_count + 1 < policy.bound

\* RPCRetryPolicy::OnFailure, the effect on the policy's counters.
AfterOnFailure(policy, s) ==
    [policy EXCEPT !.failure_count = @ + 1]

\* RPCBackoffPolicy: exponential backoff between two limits.
MaximumDelay == 4
BackoffPolicy == [current_delay |-> 1]

Min(a, b) == IF a < b THEN a ELSE b

\* RPCBackoffPolicy::OnCompletion, the delay returned.
OnCompletion(policy, s) == policy.current_delay

\* RPCBackoffPolicy::OnCompletion, the effect on the policy.
AfterOnCompletion(policy, s) ==
    [policy EXCEPT !.current_delay = Min(2 * @, MaximumDelay)]

\* The kinds of btproto::Mutation.  SetCellServerTime is a SetCell whose
\* timestamp is assigned by the server; replaying it is not safe.
MutationKinds == {"SetCell", "SetCellServerTime", "DeleteFromRow"}
IdempotencyPolicies == {"SafeIdempotent", "AlwaysRetry"}

\* IdempotentMutationPolicy::is_idempotent(btproto::Mutation const&)
IsIdempotentMutation(policy, m) ==
    \/ policy = "AlwaysRetry"
    \/ m # "SetCellServerTime"

\* clone() of a policy: a fresh instance with the state of the original,
\* sharing nothing with it.
Clone(policy) == policy

\* Sequences over S of length at most n.
SeqsUpTo(S, n) == UNION {[1..k -> S] : k \in 0..n}

VARIABLES
    impl,             \* impl_: the policies the Table stores
    op,               \* the operation running on the Table
    pc,               \* where that operation is: "idle", "running", "done"
    request,          \* Apply: request.mutations()
    is_idempotent,    \* Apply: the flag of lines 46-50
    rpc_policy,       \* Apply: the clone of the retry policy
    backoff_policy,   \* Apply: the clone of the backoff policy
    rpcs,             \* Apply: the codes MutateRow returned, in order
    slept,            \* Apply: the delays slept, in order
    apply_result,     \* Apply: the Status returned
    bulk_mut,         \* BulkApply: the BulkMutation submitted
    mutator,          \* BulkApply: the BulkMutator
    retry_policy,     \* BulkApply: the clone of the retry policy
    bulk_backoff,     \* BulkApply: the clone of the backoff policy
    status,           \* BulkApply: the status of the latest MakeOneRequest
    sent,             \* BulkApply: original indices sent in some request
    resent,           \* BulkApply: original indices sent more than once
    succeeded,        \* BulkApply: original indices that received OK
    entry_status,     \* BulkApply: the latest status each entry received
    failures,         \* BulkApply: the list returned
    bulk_log,         \* BulkApply: what the latest round did with the policies
    other,            \* a second thread's Table::Apply on the same Table
    cam,              \* CheckAndMutateRow: its locals and its result
    stored_calls,     \* the policies of impl_ a decision was asked of directly
    async_apply,      \* AsyncApply: the promise p and the future `final`
    async_bulk,       \* AsyncBulkApply: cb.res_promise and what cb was handed
    generated,        \* StubGenerator: the service and the .cc methods printed
    stub_call,        \* a call of a generated method and its transport call
    reader,           \* ReadRows: the RowReader
    scan,             \* ReadRows: the row set and the limit the caller gave
    produced,         \* ReadRows: the elements the reader yielded, in order
    rpc_count,        \* ReadRows: the scan RPCs issued
    interruptions,    \* ReadRows: the streams broken by a transient status
    read_row          \* ReadRow: the reader's elements and the result

applyVars == <<request, is_idempotent, rpc_policy, backoff_policy, rpcs,
               slept, apply_result>>
bulkVars == <<bulk_mut, mutator, retry_policy, bulk_backoff, status, sent, resent,
              succeeded, entry_status, failures, bulk_log>>
readVars == <<reader, scan, produced, rpc_count, interruptions, read_row>>
camVars == <<cam, stored_calls>>
asyncVars == <<async_apply, async_bulk>>
vars == <<impl, op, pc, applyVars, bulkVars, readVars, other, camVars,
          asyncVars, generated, stub_call>>

NoPolicy == [failure_count |-> 0, bound |-> 0]
NoResult == [code |-> "NONE", message |-> ""]
\* RowReader::NO_ROWS_LIMIT, the limit of a scan without one.
NO_ROWS_LIMIT == 0

NoReader == [row_set_ |-> {}, rows_limit_ |-> NO_ROWS_LIMIT, rows_count_ |-> 0,
             last_read_row_key_ |-> 0, retry_policy_ |-> NoPolicy,
             backoff_policy_ |-> BackoffPolicy, stream_ |-> "none",
             stream_rest |-> {}]

\* A Row, by its key.  Row keys are numbers, ordered as the service sorts
\* them; 0 stands for the empty key "", which sorts before every row's.
EmptyRow == [row_key |-> 0]

NoReadRowResult == [status |-> [code |-> "NONE", message |-> ""],
                    found |-> FALSE, row |-> EmptyRow]
NoReadRow == [row_key |-> 0, elements |-> <<>>, result |-> NoReadRowResult]

\* failed_rpcs: the requests of this BulkApply whose RPC failed; backoff_status:
\* the status handed to OnCompletion after the latest round, "NONE" when it
\* was not called; waited: whether the latest round ended in a sleep.
NoBulkLog == [failed_rpcs |-> 0, backoff_status |-> "NONE", waited |-> FALSE]

NoOther == [pc |-> "idle", is_idempotent |-> FALSE, rpc_policy |-> NoPolicy,
            backoff_policy |-> BackoffPolicy, rpcs |-> <<>>,
            result |-> NoResult]

NoCam == [true_mutations |-> <<>>, false_mutations |-> <<>>,
          is_idempotent |-> FALSE, rpc_policy |-> NoPolicy,
          backoff_policy |-> BackoffPolicy, rpcs |-> <<>>,
          predicate_matched |-> FALSE,
          result |-> [status |-> NoResult, value |-> FALSE]]

\* A promise or future that holds nothing yet.  A
\* StatusOr<MutateRowResponse> is its status and whether it holds a response.
NoAsyncApply ==
    [callbacks |-> 0,
     p |-> [set |-> 0, has_value |-> FALSE, status |-> NoResult],
     final |-> [set |-> 0, status |-> NoResult],
     completed |-> "NONE"]

NoAsyncBulk ==
    [callbacks |-> 0,
     res_promise |-> [set |-> 0, value |-> <<>>],
     handed |-> <<>>,
     status |-> "NONE"]

\* The deadline of a grpc::ClientContext nobody set one on.
NoDeadline == 0

\* No generated method called yet.
NoStubCall ==
    [method |-> 0, deadline |-> NoDeadline, transport_call |-> "NONE",
     transport_deadline |-> NoDeadline]

\* Nothing generated yet.
NoGenerated == [methods |-> <<>>, cc |-> <<>>, longrunning |-> FALSE]

NoMutator == [pending |-> <<>>, failures |-> <<>>, status |-> "NONE"]

Init ==
    /\ impl \in [rpc_retry_policy_ : {RetryPolicy(b) : b \in 1..MaxRetryBound},
                 rpc_backoff_policy_ : {BackoffPolicy},
                 idempotent_mutation_policy_ : IdempotencyPolicies]
    /\ op = "idle"
    /\ pc = "idle"
    /\ request = <<>>
    /\ is_idempotent = FALSE
    /\ rpc_policy = NoPolicy
    /\ backoff_policy = BackoffPolicy
    /\ rpcs = <<>>
    /\ slept = <<>>
    /\ apply_result = NoResult
    /\ bulk_mut = <<>>
    /\ mutator = NoMutator
    /\ retry_policy = NoPolicy
    /\ bulk_backoff = BackoffPolicy
    /\ status = "NONE"
    /\ sent = {}
    /\ resent = {}
    /\ succeeded = {}
    /\ entry_status = <<>>
    /\ failures = <<>>
    /\ bulk_log = NoBulkLog
    /\ other = NoOther
    /\ cam = NoCam
    /\ stored_calls = {}
    /\ async_apply = NoAsyncApply
    /\ async_bulk = NoAsyncBulk
    /\ generated = NoGenerated
    /\ stub_call = NoStubCall
    /\ reader = NoReader
    /\ scan = [row_set |-> {}, rows_limit |-> NO_ROWS_LIMIT]
    /\ produced = <<>>
    /\ rpc_count = 0
    /\ interruptions = 0
    /\ read_row = NoReadRow

(***************************************************************************)
(* Table::Apply                                                            *)
(***************************************************************************)
\* Lines 46-50 with std::any_of in the place of std::all_of.
AnyIdempotent(policy, mutations) ==
    \E i \in 1..Len(mutations) : IsIdempotentMutation(policy, mutations[i])

\* std::all_of over request.mutations() with the cloned idempotency policy.
AllIdempotent(policy, mutations) ==
    \A i \in 1..Len(mutations) : IsIdempotentMutation(policy, mutations[i])

\* Lines 32-53: clone the policies, build the request, classify it.
ApplyStart(mut) ==
    /\ op = "idle"
    /\ op' = "Apply"
    /\ pc' = "running"
    /\ rpc_policy' = Clone(impl.rpc_retry_policy_)
    /\ backoff_policy' = Clone(impl.rpc_backoff_policy_)
    /\ request' = mut
    /\ is_idempotent' =
           AllIdempotent(Clone(impl.idempotent_mutation_policy_), mut)
    /\ UNCHANGED <<impl, other, rpcs, slept, apply_result, bulkVars,
                   readVars, camVars, asyncVars, generated, stub_call>>

\* Line 66 with the negation of is_idempotent dropped.
ApplyGivesUpNegationDropped(policy, s, idempotent) ==
    \/ ~OnFailure(policy, s)
    \/ idempotent

\* Line 66 without the retry policy's verdict.
ApplyGivesUpPolicyIgnored(policy, s, idempotent) == ~idempotent

\* Line 66 without the idempotency flag.
ApplyGivesUpFlagIgnored(policy, s, idempotent) == ~OnFailure(policy, s)

\* Line 66: the condition under which a failed attempt ends the loop.
ApplyGivesUp(policy, s, idempotent) ==
    \/ ~OnFailure(policy, s)
    \/ ~idempotent

\* Lines 54-73 run on impl_'s policies instead of the clones of lines 36-37.
ApplyAttemptOnStoredPolicies(s) ==
    /\ op = "Apply"
    /\ pc = "running"
    /\ rpcs' = Append(rpcs, s)
    /\ IF s = "OK"
       THEN /\ apply_result' = OkStatus
            /\ pc' = "done"
            /\ UNCHANGED <<impl, slept>>
       ELSE IF ApplyGivesUp(impl.rpc_retry_policy_, s, is_idempotent)
       THEN /\ impl' = [impl EXCEPT
                           !.rpc_retry_policy_ = AfterOnFailure(@, s)]
            /\ apply_result' = MakeStatusFromRpcError(s, ApplyErrorMessage)
            /\ pc' = "done"
            /\ UNCHANGED slept
       ELSE /\ impl' = [impl EXCEPT
                           !.rpc_retry_policy_ = AfterOnFailure(@, s),
                           !.rpc_backoff_policy_ = AfterOnCompletion(@, s)]
            /\ slept' = Append(slept,
                               OnCompletion(impl.rpc_backoff_policy_, s))
            /\ UNCHANGED <<pc, apply_result>>
    /\ UNCHANGED <<other, op, request, is_idempotent, rpc_policy,
                   backoff_policy, bulkVars, readVars, camVars, asyncVars,
                   generated, stub_call>>

\* Lines 54-73 returning the status of the first attempt, not of the latest.
ApplyAttemptReturningFirstStatus(s) ==
    /\ op = "Apply"
    /\ pc = "running"
    /\ rpcs' = Append(rpcs, s)
    /\ IF s = "OK"
       THEN /\ apply_result' = OkStatus
            /\ pc' = "done"
            /\ UNCHANGED <<rpc_policy, backoff_policy, slept>>
       ELSE /\ rpc_policy' = AfterOnFailure(rpc_policy, s)
            /\ IF ApplyGivesUp(rpc_policy, s, is_idempotent)
               THEN /\ apply_result' =
                           MakeStatusFromRpcError(Append(rpcs, s)[1],
                                                  ApplyErrorMessage)
                    /\ pc' = "done"
                    /\ UNCHANGED <<backoff_policy, slept>>
               ELSE /\ slept' = Append(slept, OnCompletion(backoff_policy, s))
                    /\ backoff_policy' = AfterOnCompletion(backoff_policy, s)
                    /\ UNCHANGED <<pc, apply_result>>
    /\ UNCHANGED <<impl, other, op, request, is_idempotent, bulkVars,
                   readVars, camVars, asyncVars, generated, stub_call>>

\* Lines 54-73 with the backoff of lines 71-72 ahead of the decision of
\* line 66: every failed attempt is followed by a delay.
ApplyAttemptBackoffBeforeDecision(s) ==
    /\ op = "Apply"
    /\ pc = "running"
    /\ rpcs' = Append(rpcs, s)
    /\ IF s = "OK"
       THEN /\ apply_result' = OkStatus
            /\ pc' = "done"
            /\ UNCHANGED <<rpc_policy, backoff_policy, slept>>
       ELSE /\ rpc_policy' = AfterOnFailure(rpc_policy, s)
            /\ slept' = Append(slept, OnCompletion(backoff_policy, s))
            /\ backoff_policy' = AfterOnCompletion(backoff_policy, s)
            /\ IF ApplyGivesUp(rpc_policy, s, is_idempotent)
               THEN /\ apply_result' =
                           MakeStatusFromRpcError(s, ApplyErrorMessage)
                    /\ pc' = "done"
               ELSE UNCHANGED <<pc, apply_result>>
    /\ UNCHANGED <<impl, other, op, request, is_idempotent, bulkVars,
                   readVars, camVars, asyncVars, generated, stub_call>>

\* Lines 54-73: one iteration of the loop; s is the status of MutateRow.
ApplyAttempt(s) ==
    /\ op = "Apply"
    /\ pc = "running"
    /\ rpcs' = Append(rpcs, s)
    /\ IF s = "OK"
       THEN /\ apply_result' = OkStatus
            /\ pc' = "done"
            /\ UNCHANGED <<rpc_policy, backoff_policy, slept>>
       ELSE /\ rpc_policy' = AfterOnFailure(rpc_policy, s)
            /\ IF ApplyGivesUp(rpc_policy, s, is_idempotent)
               THEN /\ apply_result' =
                           MakeStatusFromRpcError(s, ApplyErrorMessage)
                    /\ pc' = "done"
                    /\ UNCHANGED <<backoff_policy, slept>>
               ELSE /\ slept' = Append(slept, OnCompletion(backoff_policy, s))
                    /\ backoff_policy' = AfterOnCompletion(backoff_policy, s)
                    /\ UNCHANGED <<pc, apply_result>>
    /\ UNCHANGED <<impl, other, op, request, is_idempotent, bulkVars,
                   readVars, camVars, asyncVars, generated, stub_call>>

(***************************************************************************)
(* internal::BulkMutator, from its contract: the pending entries, each     *)
(* with its original index, and the accumulated FailedMutation list.       *)
(***************************************************************************)
\* BulkMutator::BulkMutator: every entry of the BulkMutation is pending, keyed
\* by its position in the submission (counted from 0) and classified by the
\* idempotency policy.
NewBulkMutator(policy, mut) ==
    [pending |-> [i \in 1..Len(mut) |->
                     [original_index |-> i - 1,
                      is_idempotent |-> AllIdempotent(policy, mut[i])]],
     failures |-> <<>>,
     status |-> "NONE"]

\* BulkMutator::HasPendingMutations
HasPendingMutations(m) == m.pending # <<>>

\* The original indices of the entries of a list.
Indices(list) == {list[i].original_index : i \in 1..Len(list)}

\* What the server can answer to a request of n entries: the status of the
\* RPC and, for each entry sent, its status or "NONE" when the response
\* carries no detail for it.  An RPC that ends OK has answered every entry.
RoundOutcomes(n) ==
    {o \in [status : StatusCodes,
            entries : [1..n -> StatusCodes \cup {"NONE"}]] :
        o.status = "OK" => \A i \in 1..n : o.entries[i] # "NONE"}

\* The status entry i of the request ends the round with.
EntryStatus(o, i) ==
    IF o.entries[i] = "NONE" THEN o.status ELSE o.entries[i]

\* StaysPending without the idempotency classification.
StaysPendingWhateverTheEntry(entry, s) == s \in TransientCodes

\* An entry stays pending when its failure is transient and replaying it is
\* safe.
StaysPending(entry, s) == entry.is_idempotent /\ s \in TransientCodes

\* The subsequence of seq of the elements at the positions in keep.
RECURSIVE SelectAt(_, _, _)
SelectAt(seq, keep, i) ==
    IF i > Len(seq) THEN <<>>
    ELSE (IF i \in keep THEN <<seq[i]>> ELSE <<>>) \o SelectAt(seq, keep, i + 1)

\* FailedMutation keyed by the position in the request of the round.
FailedMutationAtPosition(entry, i, s) ==
    [original_index |-> i - 1, status |-> s]

\* FailedMutation{original_index, status} for an entry of the request.
FailedMutation(entry, i, s) ==
    [original_index |-> entry.original_index, status |-> s]

\* BulkMutator::MakeOneRequest, the grpc::Status it returns: that of the RPC.
MakeOneRequest(m, o) == o.status

\* BulkMutator::MakeOneRequest, the effect on the mutator of a round that the
\* server answers with o: entries that succeeded leave, entries that may be
\* replayed stay pending, the others become FailedMutations.
AfterMakeOneRequest(m, o) ==
    LET n == Len(m.pending)
        stay == {i \in 1..n : StaysPending(m.pending[i], EntryStatus(o, i))}
        fail == {i \in 1..n : /\ EntryStatus(o, i) # "OK"
                              /\ i \notin stay}
        failed == [i \in 1..n |->
                      FailedMutation(m.pending[i], i, EntryStatus(o, i))]
    IN [pending |-> SelectAt(m.pending, stay, 1),
        failures |-> m.failures \o SelectAt(failed, fail, 1),
        status |-> o.status]

\* BulkMutator::ExtractFinalFailures: the accumulated failures, then every
\* entry still pending as failed with the status of the last request.
ExtractFinalFailures(m) ==
    m.failures \o
        [i \in 1..Len(m.pending) |->
            FailedMutation(m.pending[i], i, m.status)]

(***************************************************************************)
(* Table::BulkApply                                                        *)
(***************************************************************************)
\* Lines 97-110, and lines 122-124 when there is nothing to send.
BulkApplyStart(mut) ==
    /\ op = "idle"
    /\ op' = "BulkApply"
    /\ bulk_mut' = mut
    /\ bulk_backoff' = Clone(impl.rpc_backoff_policy_)
    /\ retry_policy' = Clone(impl.rpc_retry_policy_)
    /\ mutator' =
           NewBulkMutator(Clone(impl.idempotent_mutation_policy_), mut)
    /\ entry_status' = [i \in 0..(Len(mut) - 1) |-> "NONE"]
    /\ IF HasPendingMutations(mutator')
       THEN pc' = "running" /\ UNCHANGED failures
       ELSE pc' = "done" /\ failures' = ExtractFinalFailures(mutator')
    /\ UNCHANGED <<impl, other, status, sent, resent, succeeded, bulk_log,
                   applyVars, readVars, camVars, asyncVars, generated,
                   stub_call>>

\* Line 116 without the break.
BulkApplyBreaksNever(policy, s) == FALSE

\* Line 116: the condition under which the loop is left with entries pending.
BulkApplyBreaks(policy, s) == s # "OK" /\ ~OnFailure(policy, s)

\* Lines 110-124: one round of the loop, answered by the server with o, and
\* the return that follows it when the loop ends.
BulkApplyRound(o) ==
    /\ op = "BulkApply"
    /\ pc = "running"
    /\ HasPendingMutations(mutator)
    /\ LET n == Len(mutator.pending)
           request_indices == Indices(mutator.pending)
       IN /\ sent' = sent \cup request_indices
          /\ resent' = resent \cup (sent \cap request_indices)
          /\ succeeded' = succeeded \cup
                 {mutator.pending[i].original_index :
                      i \in {j \in 1..n : EntryStatus(o, j) = "OK"}}
          /\ entry_status' =
                 [idx \in DOMAIN entry_status |->
                     IF idx \in request_indices
                     THEN LET i == CHOOSE j \in 1..n :
                                  mutator.pending[j].original_index = idx
                          IN EntryStatus(o, i)
                     ELSE entry_status[idx]]
    /\ mutator' = AfterMakeOneRequest(mutator, o)
    /\ status' = MakeOneRequest(mutator, o)
    /\ retry_policy' = IF o.status # "OK"
                       THEN AfterOnFailure(retry_policy, o.status)
                       ELSE retry_policy
    /\ IF BulkApplyBreaks(retry_policy, o.status)
       THEN /\ pc' = "done"
            /\ failures' = ExtractFinalFailures(mutator')
            /\ bulk_log' = [failed_rpcs |-> bulk_log.failed_rpcs + 1,
                            backoff_status |-> "NONE", waited |-> FALSE]
            /\ UNCHANGED bulk_backoff
       ELSE /\ bulk_backoff' = AfterOnCompletion(bulk_backoff, o.status)
            /\ bulk_log' =
                   [failed_rpcs |-> IF o.status # "OK"
                                    THEN bulk_log.failed_rpcs + 1
                                    ELSE bulk_log.failed_rpcs,
                    backoff_status |-> o.status, waited |-> TRUE]
            /\ IF HasPendingMutations(mutator')
               THEN UNCHANGED <<pc, failures>>
               ELSE /\ pc' = "done"
                    /\ failures' = ExtractFinalFailures(mutator')
    /\ UNCHANGED <<impl, other, op, bulk_mut, applyVars, readVars, camVars,
                   asyncVars, generated, stub_call>>

\* A BulkMutation: its entries, each the mutations of one row.
BulkMutations == SeqsUpTo({<<"SetCell">>, <<"SetCellServerTime">>}, MaxEntries)

(***************************************************************************)
(* RowReader, from its contract: a lazy sequence of rows over one or more  *)
(* scan RPCs.  A RowSet is the set of the keys a scan covers.              *)
(***************************************************************************)
Keys == 1..MaxKey

\* RowReader::RowReader: nothing is requested before the first pull.
NewRowReader(row_set, rows_limit, retry, backoff) ==
    [row_set_ |-> row_set, rows_limit_ |-> rows_limit, rows_count_ |-> 0,
     last_read_row_key_ |-> 0, retry_policy_ |-> retry,
     backoff_policy_ |-> backoff, stream_ |-> "none", stream_rest |-> {}]

\* An element of the sequence: a row or the terminal error.
RowElement(k) ==
    [kind |-> "row", row |-> [row_key |-> k], status |-> OkStatus]
ErrorElement(code) ==
    [kind |-> "error", row |-> EmptyRow,
     status |-> [code |-> code, message |-> "stream failed"]]

\* The rows among the elements yielded.
RowsOf(elements) ==
    {i \in 1..Len(elements) : elements[i].kind = "row"}

\* The row limit is reached: the sequence ends and nothing more is asked.
LimitReached(r) ==
    r.rows_limit_ # NO_ROWS_LIMIT /\ r.rows_count_ >= r.rows_limit_

\* A reissued scan that covers the whole row set again.
ShrinkRowSetNotAtAll(row_set, last_key) == row_set

\* The row set that remains once the rows up to last_key were returned.
ShrinkRowSet(row_set, last_key) == {k \in row_set : k > last_key}

\* Table::ReadRows(row_set, filter), lines 145-153.
ReadRowsNoLimit(row_set) ==
    NewRowReader(row_set, NO_ROWS_LIMIT, Clone(impl.rpc_retry_policy_),
                 Clone(impl.rpc_backoff_policy_))

\* Lines 155-164 forwarding to the overload without a limit.
ReadRowsThroughNoLimit(row_set, rows_limit) == ReadRowsNoLimit(row_set)

\* Lines 155-164 passing NO_ROWS_LIMIT, as lines 145-153 do.
ReadRowsDroppingLimit(row_set, rows_limit) ==
    NewRowReader(row_set, NO_ROWS_LIMIT, Clone(impl.rpc_retry_policy_),
                 Clone(impl.rpc_backoff_policy_))

\* Table::ReadRows(row_set, rows_limit, filter), lines 155-164.
ReadRows(row_set, rows_limit) ==
    NewRowReader(row_set, rows_limit, Clone(impl.rpc_retry_policy_),
                 Clone(impl.rpc_backoff_policy_))

\* A caller obtains a reader with a row limit.
ReadRowsStart(row_set, rows_limit) ==
    /\ op = "idle"
    /\ op' = "ReadRows"
    /\ pc' = "running"
    /\ reader' = ReadRows(row_set, rows_limit)
    /\ scan' = [row_set |-> row_set, rows_limit |-> rows_limit]
    /\ UNCHANGED <<impl, other, produced, rpc_count, interruptions, read_row,
                   applyVars, bulkVars, camVars, asyncVars, generated,
                   stub_call>>

\* A caller obtains a reader without a row limit.
ReadRowsNoLimitStart(row_set) ==
    /\ op = "idle"
    /\ op' = "ReadRows"
    /\ pc' = "running"
    /\ reader' = ReadRowsNoLimit(row_set)
    /\ scan' = [row_set |-> row_set, rows_limit |-> NO_ROWS_LIMIT]
    /\ UNCHANGED <<impl, other, produced, rpc_count, interruptions, read_row,
                   applyVars, bulkVars, camVars, asyncVars, generated,
                   stub_call>>

\* The first pull issues the scan RPC for the row set.
ReaderBegin ==
    /\ op = "ReadRows" /\ pc = "running"
    /\ reader.stream_ = "none"
    /\ reader' = [reader EXCEPT !.stream_ = "open",
                                !.stream_rest = reader.row_set_]
    /\ rpc_count' = rpc_count + 1
    /\ UNCHANGED <<impl, other, op, pc, scan, produced, interruptions,
                   read_row, applyVars, bulkVars, camVars, asyncVars,
                   generated, stub_call>>

\* The stream delivers row k, the next row of the request in the service's
\* order that passes the filter: the reader yields it and counts it, and the
\* sequence ends when the limit is reached.
ReaderRow(k) ==
    /\ op = "ReadRows" /\ pc = "running"
    /\ reader.stream_ = "open"
    /\ k \in reader.stream_rest
    /\ produced' = Append(produced, RowElement(k))
    /\ LET r == [reader EXCEPT !.rows_count_ = @ + 1,
                               !.last_read_row_key_ = k,
                               !.stream_rest = {j \in @ : j > k}]
       IN IF LimitReached(r)
          THEN /\ reader' = [r EXCEPT !.stream_ = "closed"]
               /\ pc' = "done"
          ELSE /\ reader' = r
               /\ UNCHANGED pc
    /\ UNCHANGED <<impl, other, op, scan, rpc_count, interruptions, read_row,
                   applyVars, bulkVars, camVars, asyncVars, generated,
                   stub_call>>

\* The stream ends cleanly: the sequence ends.
ReaderStreamEnd ==
    /\ op = "ReadRows" /\ pc = "running"
    /\ reader.stream_ = "open"
    /\ reader' = [reader EXCEPT !.stream_ = "closed"]
    /\ pc' = "done"
    /\ UNCHANGED <<impl, other, op, scan, produced, rpc_count, interruptions,
                   read_row, applyVars, bulkVars, camVars, asyncVars,
                   generated, stub_call>>

\* The stream breaks with status s.  When the retry policy permits, the row
\* set shrinks to the rows not yet returned and the scan is reissued for it
\* after the backoff delay; otherwise the error ends the sequence.
ReaderStreamBreak(s) ==
    /\ op = "ReadRows" /\ pc = "running"
    /\ reader.stream_ = "open"
    /\ s \in FailureCodes
    /\ interruptions' = IF s \in TransientCodes
                        THEN interruptions + 1 ELSE interruptions
    /\ IF OnFailure(reader.retry_policy_, s)
       THEN /\ LET rest == ShrinkRowSet(reader.row_set_,
                                        reader.last_read_row_key_)
               IN reader' =
                   [reader EXCEPT
                       !.retry_policy_ = AfterOnFailure(@, s),
                       !.backoff_policy_ = AfterOnCompletion(@, s),
                       !.row_set_ = rest,
                       !.stream_rest = rest]
            /\ rpc_count' = rpc_count + 1
            /\ UNCHANGED <<pc, produced>>
       ELSE /\ reader' = [reader EXCEPT
                             !.retry_policy_ = AfterOnFailure(@, s),
                             !.stream_ = "closed"]
            /\ produced' = Append(produced, ErrorElement(s))
            /\ pc' = "done"
            /\ UNCHANGED rpc_count
    /\ UNCHANGED <<impl, other, op, scan, read_row, applyVars, bulkVars,
                   camVars, asyncVars, generated, stub_call>>

\* A chunk arrives that does not parse into a well-formed row: a protocol
\* error ends the sequence.
ReaderParseError ==
    /\ op = "ReadRows" /\ pc = "running"
    /\ reader.stream_ = "open"
    /\ reader' = [reader EXCEPT !.stream_ = "closed"]
    /\ produced' = Append(produced, ErrorElement("INTERNAL"))
    /\ pc' = "done"
    /\ UNCHANGED <<impl, other, op, scan, rpc_count, interruptions, read_row,
                   applyVars, bulkVars, camVars, asyncVars, generated,
                   stub_call>>

(***************************************************************************)
(* Table::ReadRow                                                          *)
(***************************************************************************)
\* What the iterator of a RowReader can hand to ReadRow: rows, then possibly
\* an error, after which the sequence is exhausted.  A second element after
\* a row is what a reader or server that does not honour the limit yields.
ReaderSequences ==
    {e \in SeqsUpTo({RowElement(k) : k \in 1..2} \cup
                    {ErrorElement(c) : c \in FailureCodes}, MaxElements) :
        \A i \in 1..Len(e) : e[i].kind = "error" => i = Len(e)}

TwoRowsMessage == "internal error - RowReader returned 2 rows in ReadRow()"

\* Lines 173-185 without the check of lines 181-184.
ReadRowResultFirstRowOnly(elements) ==
    IF elements = <<>>
    THEN [status |-> OkStatus, found |-> FALSE, row |-> EmptyRow]
    ELSE IF elements[1].kind = "error"
    THEN [status |-> elements[1].status, found |-> FALSE, row |-> EmptyRow]
    ELSE [status |-> OkStatus, found |-> TRUE,
          row |-> elements[1].row]

\* Lines 182-185 returning the status of an error that follows the first row
\* where the source returns the internal error.
ReadRowResultSurfacingLaterError(elements) ==
    IF elements = <<>>
    THEN [status |-> OkStatus, found |-> FALSE, row |-> EmptyRow]
    ELSE IF elements[1].kind = "error"
    THEN [status |-> elements[1].status, found |-> FALSE, row |-> EmptyRow]
    ELSE IF Len(elements) > 1 /\ elements[2].kind = "error"
    THEN [status |-> elements[2].status, found |-> FALSE, row |-> EmptyRow]
    ELSE IF Len(elements) > 1
    THEN [status |-> [code |-> "INTERNAL", message |-> TwoRowsMessage],
          found |-> FALSE, row |-> EmptyRow]
    ELSE [status |-> OkStatus, found |-> TRUE,
          row |-> elements[1].row]

\* Lines 173-185: what ReadRow returns for the elements its reader yields.
ReadRowResult(elements) ==
    IF elements = <<>>
    THEN [status |-> OkStatus, found |-> FALSE, row |-> EmptyRow]
    ELSE IF elements[1].kind = "error"
    THEN [status |-> elements[1].status, found |-> FALSE, row |-> EmptyRow]
    ELSE IF Len(elements) > 1
    THEN [status |-> [code |-> "INTERNAL", message |-> TwoRowsMessage],
          found |-> FALSE, row |-> EmptyRow]
    ELSE [status |-> OkStatus, found |-> TRUE,
          row |-> elements[1].row]

\* Lines 166-186: ReadRow of a row key, its reader yielding `elements`.
ReadRow(row_key, elements) ==
    /\ op = "idle"
    /\ op' = "ReadRow"
    /\ pc' = "done"
    /\ reader' = ReadRows({row_key}, 1)
    /\ scan' = [row_set |-> {row_key}, rows_limit |-> 1]
    /\ produced' = elements
    /\ read_row' = [row_key |-> row_key, elements |-> elements,
                    result |-> ReadRowResult(elements)]
    /\ UNCHANGED <<impl, other, rpc_count, interruptions, applyVars,
                   bulkVars, camVars, asyncVars, generated, stub_call>>

(***************************************************************************)
(* Table::CheckAndMutateRow                                                *)
(***************************************************************************)
\* IdempotentMutationPolicy::is_idempotent(CheckAndMutateRowRequest const&):
\* replaying the request is safe when replaying each of its mutations is.
IsIdempotentRequest(policy, true_mutations, false_mutations) ==
    AllIdempotent(policy, true_mutations \o false_mutations)

\* bigtable::internal::MakeStatusFromRpcError(grpc::Status const&)
MakeStatusFromRpcStatus(s) == [code |-> s, message |-> "rpc error"]

\* Lines 188-208: build the request, classify it with the policy impl_
\* stores, clone the retry and backoff policies for MakeCall.
CheckAndMutateRowStart(true_mutations, false_mutations) ==
    /\ op = "idle"
    /\ op' = "CheckAndMutateRow"
    /\ pc' = "running"
    /\ cam' = [cam EXCEPT
                  !.true_mutations = true_mutations,
                  !.false_mutations = false_mutations,
                  !.is_idempotent =
                      IsIdempotentRequest(impl.idempotent_mutation_policy_,
                                          true_mutations, false_mutations),
                  !.rpc_policy = Clone(impl.rpc_retry_policy_),
                  !.backoff_policy = Clone(impl.rpc_backoff_policy_)]
    /\ stored_calls' = stored_calls \cup {"idempotent_mutation_policy_"}
    /\ UNCHANGED <<impl, other, applyVars, bulkVars, readVars, asyncVars,
                   generated, stub_call>>

\* ClientUtils::MakeCall gives up on a failure the retry policy rejects or
\* whose request is not idempotent.
MakeCallGivesUp(policy, s, idempotent) ==
    \/ ~OnFailure(policy, s)
    \/ ~idempotent

\* Lines 212-215 without the test of the status.
CheckAndMutateRowReturnsMatchedAlways(s, predicate_matched) ==
    [status |-> OkStatus, value |-> predicate_matched]

\* Lines 212-215: the value CheckAndMutateRow returns for the final status
\* and the response of MakeCall.
CheckAndMutateRowResult(s, predicate_matched) ==
    IF s # "OK"
    THEN [status |-> MakeStatusFromRpcStatus(s), value |-> FALSE]
    ELSE [status |-> OkStatus, value |-> predicate_matched]

\* One attempt of ClientUtils::MakeCall (lines 206-210), answered with status
\* s and, when it succeeds, with predicate_matched; and lines 212-215 once
\* MakeCall returns.
CheckAndMutateRowAttempt(s, predicate_matched) ==
    /\ op = "CheckAndMutateRow"
    /\ pc = "running"
    /\ IF s = "OK"
       THEN /\ cam' = [cam EXCEPT
                          !.rpcs = Append(@, s),
                          !.predicate_matched = predicate_matched,
                          !.result =
                              CheckAndMutateRowResult(s, predicate_matched)]
            /\ pc' = "done"
       ELSE IF MakeCallGivesUp(cam.rpc_policy, s, cam.is_idempotent)
       THEN /\ cam' = [cam EXCEPT
                          !.rpcs = Append(@, s),
                          !.rpc_policy = AfterOnFailure(@, s),
                          !.result =
                              CheckAndMutateRowResult(s, cam.predicate_matched)]
            /\ pc' = "done"
       ELSE /\ cam' = [cam EXCEPT
                          !.rpcs = Append(@, s),
                          !.rpc_policy = AfterOnFailure(@, s),
                          !.backoff_policy = AfterOnCompletion(@, s)]
            /\ UNCHANGED pc
    /\ UNCHANGED <<impl, other, op, stored_calls, applyVars, bulkVars,
                   readVars, asyncVars, generated, stub_call>>

\* The mutation lists of a CheckAndMutateRow.
CamMutations == SeqsUpTo({"SetCell", "SetCellServerTime"}, 1)

(***************************************************************************)
(* Table::AsyncApply                                                       *)
(***************************************************************************)
\* Lines 76-84: the promise is handed to impl_.AsyncApply inside the
\* callback; nothing is resolved yet.
AsyncApplyStart(mut) ==
    /\ op = "idle"
    /\ op' = "AsyncApply"
    /\ pc' = "running"
    /\ async_apply' = NoAsyncApply
    /\ UNCHANGED <<impl, other, async_bulk, applyVars, bulkVars, readVars,
                   camVars, generated, stub_call>>

\* internal::MakeAsyncFutureFromCallback: the callback sets the promise to
\* the response when the operation's status is OK and to the translated
\* status otherwise.
AsyncFutureFromCallback(s) ==
    IF s = "OK"
    THEN [has_value |-> TRUE, status |-> OkStatus]
    ELSE [has_value |-> FALSE, status |-> MakeStatusFromRpcStatus(s)]

\* The continuation of lines 85-92 returning Status() whatever it is given.
AsyncApplyThenAlwaysOk(mutate_row_response) == OkStatus

\* Lines 85-92: the continuation that reduces the response to a Status.
AsyncApplyThen(mutate_row_response) ==
    IF mutate_row_response.has_value
    THEN OkStatus
    ELSE mutate_row_response.status

\* The underlying operation completes with status s on the completion queue
\* and invokes the callback, once: the promise is set and the continuation
\* of `final` runs.
AsyncApplyCallback(s) ==
    /\ op = "AsyncApply"
    /\ async_apply.callbacks = 0
    /\ LET r == AsyncFutureFromCallback(s)
       IN async_apply' =
           [callbacks |-> async_apply.callbacks + 1,
            p |-> [set |-> async_apply.p.set + 1,
                   has_value |-> r.has_value, status |-> r.status],
            final |-> [set |-> async_apply.final.set + 1,
                       status |-> AsyncApplyThen(r)],
            completed |-> s]
    /\ pc' = "done"
    /\ UNCHANGED <<impl, other, op, async_bulk, applyVars, bulkVars,
                   readVars, camVars, generated, stub_call>>

(***************************************************************************)
(* Table::AsyncBulkApply                                                   *)
(***************************************************************************)
\* Lines 136-143: the callback, with its promise, is handed to
\* impl_.AsyncBulkApply.
AsyncBulkApplyStart(mut) ==
    /\ op = "idle"
    /\ op' = "AsyncBulkApply"
    /\ pc' = "running"
    /\ async_bulk' = NoAsyncBulk
    /\ UNCHANGED <<impl, other, async_apply, applyVars, bulkVars, readVars,
                   camVars, generated, stub_call>>

\* The callback resolving to nothing when the final RPC failed.
AsyncBulkApplyCbDroppingOnError(failed_mutations, s) ==
    IF s = "OK" THEN failed_mutations ELSE <<>>

\* Lines 127-134, AsyncBulkApplyCb::operator(): the value the promise is set
\* to, given the list and the grpc::Status the callback is handed.
AsyncBulkApplyCb(failed_mutations, s) == failed_mutations

\* The asynchronous rounds end and the callback is invoked, once, with the
\* FailedMutation list and the status of the last RPC.
AsyncBulkApplyCallback(failed_mutations, s) ==
    /\ op = "AsyncBulkApply"
    /\ async_bulk.callbacks = 0
    /\ async_bulk' =
           [callbacks |-> async_bulk.callbacks + 1,
            res_promise |->
                [set |-> async_bulk.res_promise.set + 1,
                 value |-> AsyncBulkApplyCb(failed_mutations, s)],
            handed |-> failed_mutations,
            status |-> s]
    /\ pc' = "done"
    /\ UNCHANGED <<impl, other, op, async_apply, applyVars, bulkVars,
                   readVars, camVars, generated, stub_call>>

\* The FailedMutation lists the asynchronous rounds can end with: at most one
\* entry per original index, none with a success status.
FailedMutationLists ==
    {l \in SeqsUpTo([original_index : 0..(MaxEntries - 1),
                     status : FailureCodes], MaxEntries) :
        \A i, j \in 1..Len(l) :
            i # j => l[i].original_index # l[j].original_index}

(***************************************************************************)
(* StubGenerator::GenerateCc                                               *)
(***************************************************************************)
\* Bound: the number of methods of a service.
MaxMethods == 2

\* Methods of a service descriptor: name, request and response type, and
\* whether the server streams the response.
ServiceMethods ==
    {[name |-> "GetDatabase", request_type |-> "GetDatabaseRequest",
      response_type |-> "Database", server_streaming |-> FALSE],
     [name |-> "DropDatabase", request_type |-> "DropDatabaseRequest",
      response_type |-> "google::protobuf::Empty",
      server_streaming |-> FALSE],
     [name |-> "CreateDatabase", request_type |-> "CreateDatabaseRequest",
      response_type |-> "google::longrunning::Operation",
      server_streaming |-> FALSE],
     [name |-> "TailLogEntries", request_type |-> "TailLogEntriesRequest",
      response_type |-> "TailLogEntriesResponse",
      server_streaming |-> TRUE],
     [name |-> "ReadRows", request_type |-> "ReadRowsRequest",
      response_type |-> "ReadRowsResponse", server_streaming |-> TRUE]}

\* The services: their methods in declaration order, names distinct.
Services ==
    {m \in SeqsUpTo(ServiceMethods, MaxMethods) :
        \A i, j \in 1..Len(m) : i # j => m[i].name # m[j].name}

\* The predicates that select a pattern.
IsNonStreaming(method) == ~method.server_streaming
IsStreamingRead(method) == method.server_streaming
IsResponseTypeEmpty(method) ==
    method.response_type = "google::protobuf::Empty"
IsLongrunningOperation(method) ==
    method.response_type = "google::longrunning::Operation"
HasLongrunningMethod(methods) ==
    \E i \in 1..Len(methods) : IsLongrunningOperation(methods[i])

\* Lines 232-248, the pattern of a unary method after substitution of
\* $method_name$, $request_type$ and $response_type$: what the function is
\* called, what it returns, the transport method it calls, the context it
\* passes, and what it returns on failure and on success.
UnaryPattern(method) ==
    [method_name |-> method.name,
     return_type |-> IF IsResponseTypeEmpty(method)
                     THEN <<"Status">>
                     ELSE <<"StatusOr", method.response_type>>,
     request_type |-> method.request_type,
     response_type |-> method.response_type,
     transport_call |-> method.name,
     context |-> "client_context",
     on_failure |-> "MakeStatusFromRpcError(status)",
     on_success |-> IF IsResponseTypeEmpty(method)
                    THEN "Status()" ELSE "response"]

\* Lines 253-262, the pattern of a streaming-read method after substitution:
\* the method called on the transport stub and the type the stream is
\* wrapped with are literal text of the pattern, and the context passed is
\* one the function makes.
StreamingReadPattern(method) ==
    [method_name |-> method.name,
     return_type |-> <<"StreamingReadRpc", method.response_type>>,
     request_type |-> method.request_type,
     response_type |-> "TailLogEntriesResponse",
     transport_call |-> "TailLogEntries",
     context |-> "make_unique<grpc::ClientContext>()",
     on_failure |-> "StreamingReadRpcImpl(context, stream)",
     on_success |-> "StreamingReadRpcImpl(context, stream)"]

\* Lines 229-268, CcPrintMethod: the first pattern whose predicate holds.
CcPrintMethod(method) ==
    IF IsNonStreaming(method)
    THEN UnaryPattern(method)
    ELSE StreamingReadPattern(method)

\* Lines 202-303: one definition per method of the service, in order, and
\* GetOperation and CancelOperation when a method is long-running.
GenerateCc(service) ==
    /\ op = "idle"
    /\ op' = "GenerateCc"
    /\ pc' = "done"
    /\ generated' =
           [methods |-> service,
            cc |-> [i \in 1..Len(service) |-> CcPrintMethod(service[i])],
            longrunning |-> HasLongrunningMethod(service)]
    /\ UNCHANGED <<impl, other, applyVars, bulkVars, readVars, camVars,
                   asyncVars, stub_call>>

\* Bound: the deadlines a caller sets on its context.
MaxDeadline == 2
Deadlines == 1..MaxDeadline

\* The context a generated method hands to the transport, given the one the
\* caller supplied: lines 242 (&client_context) and 259-260 (a context made
\* in the method).
TransportContextDeadline(def, caller_deadline) ==
    IF def.context = "client_context"
    THEN caller_deadline
    ELSE NoDeadline

\* A caller sets a deadline on a context and calls the i-th method of the
\* generated default stub with it; the method makes its transport call.
CallDefaultStub(i, deadline) ==
    /\ op = "GenerateCc"
    /\ pc = "done"
    /\ stub_call = NoStubCall
    /\ i \in 1..Len(generated.cc)
    /\ stub_call' =
           [method |-> i, deadline |-> deadline,
            transport_call |-> generated.cc[i].transport_call,
            transport_deadline |->
                TransportContextDeadline(generated.cc[i], deadline)]
    /\ UNCHANGED <<impl, other, op, pc, applyVars, bulkVars, readVars,
                   camVars, asyncVars, generated>>

(***************************************************************************)
(* Table::Apply called by a second thread while the first thread's         *)
(* operation runs: the same lines 32-74, on that call's own locals.        *)
(***************************************************************************)
\* Lines 32-53 of the second call.
OtherApplyStart(mut) ==
    /\ other.pc = "idle"
    /\ other' = [pc |-> "running",
                 is_idempotent |->
                     AllIdempotent(Clone(impl.idempotent_mutation_policy_),
                                   mut),
                 rpc_policy |-> Clone(impl.rpc_retry_policy_),
                 backoff_policy |-> Clone(impl.rpc_backoff_policy_),
                 rpcs |-> <<>>,
                 result |-> NoResult]
    /\ UNCHANGED <<impl, op, pc, applyVars, bulkVars, readVars, camVars,
                   asyncVars, generated, stub_call>>

\* Lines 54-73 of the second call; s is the status of its MutateRow.
OtherApplyAttempt(s) ==
    /\ other.pc = "running"
    /\ other' =
        IF s = "OK"
        THEN [other EXCEPT !.rpcs = Append(@, s),
                           !.result = OkStatus,
                           !.pc = "done"]
        ELSE IF ApplyGivesUp(other.rpc_policy, s, other.is_idempotent)
        THEN [other EXCEPT
                 !.rpcs = Append(@, s),
                 !.rpc_policy = AfterOnFailure(@, s),
                 !.result = MakeStatusFromRpcError(s, ApplyErrorMessage),
                 !.pc = "done"]
        ELSE [other EXCEPT
                 !.rpcs = Append(@, s),
                 !.rpc_policy = AfterOnFailure(@, s),
                 !.backoff_policy = AfterOnCompletion(@, s)]
    /\ UNCHANGED <<impl, op, pc, applyVars, bulkVars, readVars, camVars,
                   asyncVars, generated, stub_call>>

\* The mutations the second call applies.
OtherMutations == {<<"SetCell">>, <<"SetCellServerTime">>}

\* The mutations of the first thread's operation when a second one runs.
ConcurrentMutations == {<<"SetCell">>, <<"SetCell", "SetCellServerTime">>}
ConcurrentBulkMutations ==
    {<<<<"SetCell">>>>, <<<<"SetCell">>, <<"SetCellServerTime">>>>}

\* Two operations on one Table: Apply or BulkApply on the first thread, Apply
\* on the second, their steps interleaved in every order.
ConcNext ==
    \/ \E mut \in ConcurrentMutations : ApplyStart(mut)
    \/ \E s \in StatusCodes : ApplyAttempt(s)
    \/ \E mut \in ConcurrentBulkMutations : BulkApplyStart(mut)
    \/ \E o \in RoundOutcomes(Len(mutator.pending)) : BulkApplyRound(o)
    \/ \E mut \in OtherMutations : OtherApplyStart(mut)
    \/ \E s \in StatusCodes : OtherApplyAttempt(s)

ConcSpec == Init /\ [][ConcNext]_vars

Next ==
    \/ \E mut \in SeqsUpTo(MutationKinds, MaxMutations) : ApplyStart(mut)
    \/ \E s \in StatusCodes : ApplyAttempt(s)
    \/ \E mut \in BulkMutations : BulkApplyStart(mut)
    \/ \E o \in RoundOutcomes(Len(mutator.pending)) : BulkApplyRound(o)
    \/ \E row_set \in SUBSET Keys, rows_limit \in 1..MaxKey :
           ReadRowsStart(row_set, rows_limit)
    \/ \E row_set \in SUBSET Keys : ReadRowsNoLimitStart(row_set)
    \/ ReaderBegin
    \/ \E k \in Keys : ReaderRow(k)
    \/ ReaderStreamEnd
    \/ \E s \in FailureCodes : ReaderStreamBreak(s)
    \/ ReaderParseError
    \/ \E row_key \in Keys, elements \in ReaderSequences :
           ReadRow(row_key, elements)
    \/ \E t \in CamMutations, f \in CamMutations :
           CheckAndMutateRowStart(t, f)
    \/ \E s \in StatusCodes, matched \in BOOLEAN :
           CheckAndMutateRowAttempt(s, matched)
    \/ \E mut \in OtherMutations : AsyncApplyStart(mut)
    \/ \E s \in StatusCodes : AsyncApplyCallback(s)
    \/ \E mut \in ConcurrentBulkMutations : AsyncBulkApplyStart(mut)
    \/ \E l \in FailedMutationLists, s \in StatusCodes :
           AsyncBulkApplyCallback(l, s)
    \/ \E service \in Services : GenerateCc(service)
    \/ \E i \in 1..MaxMethods, deadline \in Deadlines :
           CallDefaultStub(i, deadline)

Spec == Init /\ [][Next]_vars

\* The loops of Apply and BulkApply run on the calling thread, which keeps
\* executing them: a round that can be made is eventually made.
FairSpec ==
    /\ Spec
    /\ WF_vars(\E s \in StatusCodes : ApplyAttempt(s))
    /\ WF_vars(\E o \in RoundOutcomes(Len(mutator.pending)) : BulkApplyRound(o))

(***************************************************************************)
(* Properties of Table::Apply                                              *)
(***************************************************************************)
Last(seq) == seq[Len(seq)]

\* The number of failed attempts among the RPCs issued so far.
NumFailures(seq) == Cardinality({i \in 1..Len(seq) : seq[i] # "OK"})

OnlyTransientFailures(seq) ==
    \A i \in 1..Len(seq) : seq[i] \in TransientCodes \cup {"OK"}

NoSuccess(seq) == \A i \in 1..Len(seq) : seq[i] # "OK"

\* C1: Apply determinism.  For a request whose mutations are all idempotent
\* and whose failures are all transient: while fewer failures than the retry
\* policy's bound have been seen and no attempt succeeded, Apply is still
\* trying; and when the attempt after k < bound failures succeeds, Apply has
\* returned success and has issued exactly k+1 RPCs.
ApplyDeterminism ==
    (op = "Apply" /\ is_idempotent /\ OnlyTransientFailures(rpcs)
        /\ NumFailures(rpcs) < rpc_policy.bound) =>
        /\ NoSuccess(rpcs) => pc = "running"
        /\ (rpcs # <<>> /\ Last(rpcs) = "OK") =>
               /\ pc = "done"
               /\ apply_result = OkStatus
               /\ Len(rpcs) = NumFailures(rpcs) + 1

\* Two transient failures, then success, under a bound of three attempts.
ApplyDeterminismWitness ==
    /\ op = "Apply" /\ pc = "done" /\ is_idempotent
    /\ rpc_policy.bound = 3
    /\ rpcs = <<"UNAVAILABLE", "ABORTED", "OK">>
    /\ apply_result = OkStatus

\* C2: Apply termination.  For an idempotent request whose every attempt
\* fails with a transient status, Apply never issues more attempts than the
\* retry policy's bound, it has returned exactly when that many attempts
\* were made, and what it returns is an error carrying the failure's code.
ApplyTermination ==
    (op = "Apply" /\ is_idempotent /\ NoSuccess(rpcs)
        /\ OnlyTransientFailures(rpcs)) =>
        /\ Len(rpcs) <= rpc_policy.bound
        /\ (pc = "done") <=> (Len(rpcs) = rpc_policy.bound)
        /\ pc = "done" =>
               /\ apply_result.code \in TransientCodes
               /\ apply_result.message = ApplyErrorMessage

\* Three transient failures exhaust a bound of three attempts.
ApplyTerminationWitness ==
    /\ op = "Apply" /\ pc = "done" /\ is_idempotent
    /\ rpc_policy.bound = 3
    /\ rpcs = <<"UNAVAILABLE", "UNAVAILABLE", "ABORTED">>
    /\ apply_result.code = "ABORTED"

\* C3: a non-idempotent Apply is never retried.  When some mutation of the
\* request is not idempotent, Apply issues at most one RPC, and after that
\* one RPC it has returned: the error of the attempt when it failed, also
\* when the status is retryable and the retry policy would allow more.
ApplyNonIdempotentNeverRetried ==
    (op = "Apply" /\ ~is_idempotent) =>
        /\ Len(rpcs) <= 1
        /\ Len(rpcs) = 1 =>
               /\ pc = "done"
               /\ rpcs[1] # "OK" =>
                      apply_result =
                          MakeStatusFromRpcError(rpcs[1], ApplyErrorMessage)

\* A transient failure of a non-idempotent request while the retry policy
\* still allows two more attempts.
ApplyNonIdempotentWitness ==
    /\ op = "Apply" /\ pc = "done" /\ ~is_idempotent
    /\ rpc_policy.bound = 3 /\ rpc_policy.failure_count = 1
    /\ rpcs = <<"UNAVAILABLE">>
    /\ apply_result.code = "UNAVAILABLE"

(***************************************************************************)
(* Properties of Table::BulkApply                                          *)
(***************************************************************************)
\* The original indices the idempotency policy classifies as not idempotent.
NonIdempotentEntries ==
    {i - 1 : i \in {j \in 1..Len(bulk_mut) :
        ~AllIdempotent(impl.idempotent_mutation_policy_, bulk_mut[j])}}

\* The FailedMutations of a list that carry a given original index.
EntriesFor(list, idx) ==
    {i \in 1..Len(list) : list[i].original_index = idx}

\* C4: BulkApply termination.  With a retry policy of finite budget every
\* BulkApply returns, whatever the server answers.
BulkApplyTerminates == [](op = "BulkApply" => <>(pc = "done"))

\* C5: the FailedMutation list, as accumulated and as returned, holds at most
\* one entry per original index and no index of an entry that received a
\* success status in some round.
BulkFailuresIndexStable ==
    op = "BulkApply" =>
        \A list \in {mutator.failures} \cup
                    (IF pc = "done" THEN {failures} ELSE {}) :
            /\ \A idx \in Indices(list) :
                   Cardinality(EntriesFor(list, idx)) = 1
            /\ Indices(list) \cap succeeded = {}

\* The first entry succeeds in round 1, the second fails transiently in
\* round 1 and permanently in round 2, where it is alone in the request.
BulkFailuresIndexStableWitness ==
    /\ op = "BulkApply" /\ pc = "done"
    /\ succeeded = {0} /\ resent = {1}
    /\ failures = <<[original_index |-> 1, status |-> "PERMISSION_DENIED"]>>

\* C6: BulkApply partial failure.  A non-idempotent entry that was sent is
\* not pending for a later request and is never sent twice; when it failed
\* it is in the FailedMutation list exactly once, under its original index
\* and with the status it received in the round it was sent in.  So after a
\* round in which an idempotent and a non-idempotent entry both fail
\* transiently, the next request holds the idempotent entry only.
BulkPartialFailure ==
    op = "BulkApply" =>
        \A idx \in NonIdempotentEntries \cap sent :
            /\ idx \notin resent
            /\ idx \notin Indices(mutator.pending)
            /\ entry_status[idx] # "OK" =>
                \A list \in {mutator.failures} \cup
                            (IF pc = "done" THEN {failures} ELSE {}) :
                    /\ Cardinality(EntriesFor(list, idx)) = 1
                    /\ \A i \in EntriesFor(list, idx) :
                           list[i].status = entry_status[idx]

\* Scenario 2 of the specification: [A idempotent, B not], both fail with
\* UNAVAILABLE in round 1, A alone is resent and succeeds in round 2.
BulkPartialFailureWitness ==
    /\ op = "BulkApply" /\ pc = "done"
    /\ NonIdempotentEntries = {1}
    /\ sent = {0, 1} /\ resent = {0} /\ succeeded = {0}
    /\ entry_status[1] = "UNAVAILABLE"
    /\ failures = <<[original_index |-> 1, status |-> "UNAVAILABLE"]>>

\* The retry policy rejected the failure of the latest request.
BulkRetryRejected ==
    /\ status \in FailureCodes
    /\ \/ status \notin TransientCodes
       \/ retry_policy.failure_count >= retry_policy.bound

\* C7: when the RPC of a round fails outright and the retry policy rejects
\* continuing, BulkApply has returned (no further request is made), and every
\* entry pending at that point is in the returned list, failed with the
\* status of that RPC.
BulkWholeRequestFailure ==
    (op = "BulkApply" /\ BulkRetryRejected) =>
        /\ pc = "done"
        /\ \A idx \in Indices(mutator.pending) :
               \E i \in 1..Len(failures) :
                   failures[i] = [original_index |-> idx, status |-> status]

\* Two rounds whose RPC fails with no per-entry detail, the second one
\* exhausting a bound of two attempts while an idempotent entry is pending.
BulkWholeRequestFailureWitness ==
    /\ op = "BulkApply" /\ pc = "done"
    /\ retry_policy.bound = 2 /\ retry_policy.failure_count = 2
    /\ status = "ABORTED"
    /\ Indices(mutator.pending) = {0}
    /\ resent = {0}
    /\ failures = <<[original_index |-> 0, status |-> "ABORTED"]>>

(***************************************************************************)
(* Properties of Table::ReadRow and of the RowReader                       *)
(***************************************************************************)
\* C8: ReadRow cardinality.  ReadRow returns (false, empty row) when its
\* reader yields nothing, (true, the row) when it yields one row and then
\* ends, and an internal error when a second element follows the first row.
ReadRowCardinality ==
    op = "ReadRow" =>
        LET e == read_row.elements
            r == read_row.result
        IN /\ e = <<>> =>
                  r = [status |-> OkStatus, found |-> FALSE, row |-> EmptyRow]
           /\ (Len(e) = 1 /\ e[1].kind = "row") =>
                  r = [status |-> OkStatus, found |-> TRUE, row |-> e[1].row]
           /\ (Len(e) >= 2 /\ e[1].kind = "row") =>
                  /\ r.status.code = "INTERNAL"
                  /\ ~r.found

\* A reader that yields two rows for a single-row request.
ReadRowCardinalityWitness ==
    /\ op = "ReadRow"
    /\ Len(read_row.elements) = 2
    /\ read_row.elements[1].kind = "row"
    /\ read_row.elements[2].kind = "row"
    /\ read_row.result.status.code = "INTERNAL"

\* C9: RowReader limit bound.  A reader obtained with row limit L yields at
\* most L rows in all, over all the scan RPCs it issues.
RowReaderLimitBound ==
    (op = "ReadRows" /\ scan.rows_limit # NO_ROWS_LIMIT) =>
        Cardinality(RowsOf(produced)) <= scan.rows_limit

\* Limit 2 over three rows: one row, an interruption, a second RPC for the
\* two rows left, and the sequence ends at the first row of that RPC.
RowReaderLimitBoundWitness ==
    /\ op = "ReadRows" /\ pc = "done"
    /\ scan = [row_set |-> {1, 2, 3}, rows_limit |-> 2]
    /\ rpc_count = 2
    /\ reader.row_set_ = {2, 3}
    /\ produced = <<RowElement(1), RowElement(2)>>

\* C10: the rows a reader yields are rows of the row set asked for, in
\* strictly increasing key order: none twice, none out of order, whatever
\* the interruptions and reissued scans.
RowReaderOrdered ==
    op = "ReadRows" =>
        /\ \A i \in RowsOf(produced) : produced[i].row.row_key \in scan.row_set
        /\ \A i, j \in RowsOf(produced) :
               i < j => produced[i].row.row_key < produced[j].row.row_key

\* Three rows delivered over three RPCs, an interruption after each of the
\* first two rows.
RowReaderOrderedWitness ==
    /\ op = "ReadRows"
    /\ scan.row_set = {1, 2, 3}
    /\ rpc_count = 3
    /\ reader.row_set_ = {3}
    /\ produced = <<RowElement(1), RowElement(2), RowElement(3)>>

\* C11: once a reader with limit L has yielded its L-th row the sequence has
\* ended, its stream is closed and no scan RPC can follow; and a reader whose
\* streams broke s times with a transient status has issued at most s+1 RPCs.
RowReaderStopsAtLimit ==
    op = "ReadRows" =>
        /\ rpc_count <= interruptions + 1
        /\ (scan.rows_limit # NO_ROWS_LIMIT
              /\ Cardinality(RowsOf(produced)) >= scan.rows_limit) =>
               /\ pc = "done"
               /\ reader.stream_ = "closed"
               /\ Cardinality(RowsOf(produced)) = scan.rows_limit

\* Scenario 3 of the specification, scaled: limit 2 over three rows and two
\* interruptions; exactly 2 rows, 3 RPCs, and the reader has stopped.
RowReaderStopsAtLimitWitness ==
    /\ op = "ReadRows" /\ pc = "done"
    /\ scan = [row_set |-> {1, 2, 3}, rows_limit |-> 2]
    /\ interruptions = 2
    /\ rpc_count = 3
    /\ produced = <<RowElement(1), RowElement(2)>>

(***************************************************************************)
(* Properties of the policy clones                                         *)
(***************************************************************************)
\* The delay a backoff policy holds after n calls of OnCompletion.
RECURSIVE DelayAfter(_)
DelayAfter(n) == IF n = 0 THEN 1 ELSE Min(2 * DelayAfter(n - 1), MaximumDelay)

\* Whether an Apply that saw the statuses seq has returned, as its own RPCs
\* alone decide it under a retry bound.
ReturnsAfter(seq, bound, idempotent) ==
    /\ seq # <<>>
    /\ \/ Last(seq) = "OK"
       \/ Last(seq) \notin TransientCodes
       \/ ~idempotent
       \/ NumFailures(seq) >= bound

\* The counters of an Apply reflect its own RPCs and nothing else.
OwnCounters(where, idempotent, retry, backoff, seq) ==
    /\ retry = [failure_count |-> NumFailures(seq),
                bound |-> impl.rpc_retry_policy_.bound]
    /\ (where = "done") <=>
           ReturnsAfter(seq, impl.rpc_retry_policy_.bound, idempotent)
    /\ backoff.current_delay =
           DelayAfter(IF where = "done" /\ Last(seq) # "OK"
                      THEN NumFailures(seq) - 1 ELSE NumFailures(seq))

\* C12: operations running concurrently on one Table share no retry or
\* backoff counter.  The policies the Table stores stay as constructed, and
\* each operation's counters and the number of its attempts are determined by
\* the outcomes of its own RPCs, in every interleaving.
ConcurrentOperationsIndependent ==
    /\ impl.rpc_retry_policy_.failure_count = 0
    /\ impl.rpc_backoff_policy_ = BackoffPolicy
    /\ op = "Apply" =>
           OwnCounters(pc, is_idempotent, rpc_policy, backoff_policy, rpcs)
    /\ other.pc # "idle" =>
           OwnCounters(other.pc, other.is_idempotent, other.rpc_policy,
                       other.backoff_policy, other.rpcs)
    /\ op = "BulkApply" =>
           retry_policy = [failure_count |-> bulk_log.failed_rpcs,
                           bound |-> impl.rpc_retry_policy_.bound]

\* Two Applies in flight at once, each with failures of its own behind it.
ConcurrentOperationsWitness ==
    /\ op = "Apply" /\ pc = "running" /\ other.pc = "running"
    /\ rpcs = <<"UNAVAILABLE", "UNAVAILABLE">>
    /\ other.rpcs = <<"ABORTED">>
    /\ rpc_policy.failure_count = 2
    /\ other.rpc_policy.failure_count = 1

\* C13: no operation asks a decision of a policy instance that impl_ stores;
\* every OnFailure, OnCompletion and is_idempotent is made on a clone taken
\* when the operation starts.
StoredPoliciesNeverInvoked == stored_calls = {}

(***************************************************************************)
(* Properties of Table::CheckAndMutateRow                                  *)
(***************************************************************************)
\* C16: CheckAndMutateRow classifies the whole request once, before the first
\* attempt, the same way whichever of the two mutation lists a mutation is
\* in; that one flag and the statuses of the attempts decide when it returns;
\* it returns the server's predicate_matched when the final status is OK and
\* the translated error status otherwise.
CheckAndMutateRowOneClassification ==
    op = "CheckAndMutateRow" =>
        /\ cam.is_idempotent =
               IsIdempotentRequest(impl.idempotent_mutation_policy_,
                                   cam.true_mutations, cam.false_mutations)
        /\ cam.is_idempotent =
               IsIdempotentRequest(impl.idempotent_mutation_policy_,
                                   cam.false_mutations, cam.true_mutations)
        /\ (pc = "done") <=>
               ReturnsAfter(cam.rpcs, impl.rpc_retry_policy_.bound,
                            cam.is_idempotent)
        /\ pc = "done" =>
               IF Last(cam.rpcs) = "OK"
               THEN cam.result =
                        [status |-> OkStatus, value |-> cam.predicate_matched]
               ELSE cam.result.status = MakeStatusFromRpcStatus(Last(cam.rpcs))

\* Scenario 5 of the specification: the predicate does not match, after one
\* transient failure of an idempotent request with a false_mutation.
CheckAndMutateRowWitness ==
    /\ op = "CheckAndMutateRow" /\ pc = "done"
    /\ cam.true_mutations = <<>> /\ cam.false_mutations = <<"SetCell">>
    /\ cam.is_idempotent
    /\ cam.rpcs = <<"UNAVAILABLE", "OK">>
    /\ ~cam.predicate_matched
    /\ cam.result = [status |-> OkStatus, value |-> FALSE]

(***************************************************************************)
(* Properties of Table::AsyncApply and Table::AsyncBulkApply               *)
(***************************************************************************)
\* C14: the future AsyncApply returns is resolved at most once, and only
\* when the callback of the underlying operation has fired; it then holds
\* the OK status exactly when the operation completed with a response, and
\* otherwise the error status the operation completed with.
AsyncApplyResolvesOnce ==
    /\ async_apply.p.set <= 1
    /\ async_apply.final.set <= 1
    /\ async_apply.final.set = async_apply.callbacks
    /\ async_apply.final.set = 0 => async_apply.final.status = NoResult
    /\ async_apply.final.set = 1 =>
           /\ (async_apply.final.status = OkStatus) <=>
                  (async_apply.completed = "OK")
           /\ async_apply.completed # "OK" =>
                  async_apply.final.status =
                      MakeStatusFromRpcStatus(async_apply.completed)

\* The underlying operation ended with a permanent error, and the future
\* holds that error.
AsyncApplyResolvesOnceWitness ==
    /\ op = "AsyncApply" /\ pc = "done"
    /\ async_apply.callbacks = 1
    /\ async_apply.completed = "PERMISSION_DENIED"
    /\ ~async_apply.p.has_value
    /\ async_apply.final.set = 1
    /\ async_apply.final.status.code = "PERMISSION_DENIED"

\* C15: the future AsyncBulkApply returns is resolved at most once, and only
\* when the callback has been invoked, with exactly the FailedMutation list
\* the callback was handed, whatever the status of the last RPC.
AsyncBulkApplyDeliversList ==
    /\ async_bulk.res_promise.set <= 1
    /\ async_bulk.res_promise.set = async_bulk.callbacks
    /\ async_bulk.res_promise.set = 0 => async_bulk.res_promise.value = <<>>
    /\ async_bulk.res_promise.set = 1 =>
           async_bulk.res_promise.value = async_bulk.handed

\* The last RPC failed and two entries are reported: the future holds both.
AsyncBulkApplyDeliversListWitness ==
    /\ op = "AsyncBulkApply" /\ pc = "done"
    /\ async_bulk.status = "UNAVAILABLE"
    /\ async_bulk.handed =
           <<[original_index |-> 0, status |-> "UNAVAILABLE"],
             [original_index |-> 1, status |-> "PERMISSION_DENIED"]>>
    /\ async_bulk.res_promise.set = 1
    /\ Len(async_bulk.res_promise.value) = 2

(***************************************************************************)
(* Properties of StubGenerator::GenerateCc                                 *)
(***************************************************************************)
\* C17: every method of the service gets a default stub method of its own
\* name that calls the transport method of that name with the method's own
\* request and response types; a unary one returns the translated status on
\* failure and Status() or the response otherwise, a streaming-read one
\* wraps the stream of that same transport method.
GeneratedStubCallsOwnMethod ==
    /\ Len(generated.cc) = Len(generated.methods)
    /\ \A i \in 1..Len(generated.cc) :
           LET method == generated.methods[i]
               def == generated.cc[i]
           IN /\ def.method_name = method.name
              /\ def.transport_call = method.name
              /\ def.request_type = method.request_type
              /\ def.response_type = method.response_type
              /\ ~method.server_streaming =>
                     /\ def.on_failure = "MakeStatusFromRpcError(status)"
                     /\ def.on_success =
                            IF IsResponseTypeEmpty(method)
                            THEN "Status()" ELSE "response"

(***************************************************************************)
(* Properties of the backoff in Table::BulkApply                           *)
(***************************************************************************)
\* C18: BulkApply asks its backoff policy for a delay only with the status
\* of a failed round, never with OK, and waits only when entries are left
\* pending for a further round.
BulkBackoffOnlyBeforeRetry ==
    op = "BulkApply" =>
        /\ bulk_log.backoff_status # "OK"
        /\ bulk_log.waited => HasPendingMutations(mutator)

(***************************************************************************)
(* Properties of the classification and the result of Table::Apply         *)
(***************************************************************************)
\* C19: throughout an Apply the idempotency flag is the conjunction of the
\* policy's verdicts on the mutations of the request, the same at every
\* attempt; a request without mutations is idempotent and is retried after a
\* transient failure while the retry policy allows it.
ApplyIdempotencyIsConjunction ==
    op = "Apply" =>
        /\ is_idempotent <=>
               \A i \in 1..Len(request) :
                   IsIdempotentMutation(impl.idempotent_mutation_policy_,
                                        request[i])
        /\ request = <<>> =>
               /\ is_idempotent
               /\ (NoSuccess(rpcs) /\ OnlyTransientFailures(rpcs)
                      /\ Len(rpcs) < rpc_policy.bound) => pc = "running"

\* A request without mutations is sent a second time after a transient
\* failure.
ApplyIdempotencyWitness ==
    /\ op = "Apply" /\ pc = "done"
    /\ request = <<>> /\ is_idempotent
    /\ rpcs = <<"UNAVAILABLE", "OK">>
    /\ apply_result = OkStatus

\* C20: when Apply has returned, what it returns carries the status code of
\* its last attempt, whatever the earlier attempts failed with, and it is
\* success exactly when the last attempt succeeded.
ApplyReturnsLastStatus ==
    (op = "Apply" /\ pc = "done") =>
        /\ rpcs # <<>>
        /\ apply_result.code = Last(rpcs)
        /\ (apply_result = OkStatus) <=> (Last(rpcs) = "OK")
        /\ Last(rpcs) # "OK" =>
               apply_result =
                   MakeStatusFromRpcError(Last(rpcs), ApplyErrorMessage)

\* A transient failure, retried, then a permanent one: the error returned is
\* the permanent one.
ApplyReturnsLastStatusWitness ==
    /\ op = "Apply" /\ pc = "done" /\ is_idempotent
    /\ rpcs = <<"UNAVAILABLE", "PERMISSION_DENIED">>
    /\ apply_result.code = "PERMISSION_DENIED"

(***************************************************************************)
(* Properties of the policy calls of Table::Apply                          *)
(***************************************************************************)
\* C21: in an Apply the retry policy has been shown each failed attempt
\* exactly once; the backoff policy has been asked for exactly one delay
\* after each attempt that another attempt follows, each time after a failed
\* attempt, and that delay was slept; after the attempt Apply returns on,
\* successful or not, no delay is computed and none is slept.
ApplyPolicyCallsOrdered ==
    op = "Apply" =>
        /\ rpc_policy.failure_count = NumFailures(rpcs)
        /\ Len(slept) = IF pc = "done" THEN Len(rpcs) - 1 ELSE Len(rpcs)
        /\ \A i \in 1..Len(slept) :
               /\ rpcs[i] # "OK"
               /\ slept[i] = DelayAfter(i - 1)
        /\ backoff_policy.current_delay = DelayAfter(Len(slept))

\* Two transient failures, each followed by a delay, then a permanent
\* failure that no delay follows.
ApplyPolicyCallsOrderedWitness ==
    /\ op = "Apply" /\ pc = "done"
    /\ rpcs = <<"UNAVAILABLE", "ABORTED", "PERMISSION_DENIED">>
    /\ rpc_policy.failure_count = 3
    /\ slept = <<1, 2>>
    /\ backoff_policy.current_delay = 4

(***************************************************************************)
(* Properties of the result of Table::ReadRow                              *)
(***************************************************************************)
\* C22: ReadRow returns one result.  When the first element of its reader is
\* an error it returns that status as it is; it returns (true, row) only
\* when the first element is a row and nothing follows it; when anything
\* follows the first row, a row or an error, it returns the internal error
\* and not the row.
ReadRowSingleTerminalResult ==
    op = "ReadRow" =>
        LET e == read_row.elements
            r == read_row.result
        IN /\ (e # <<>> /\ e[1].kind = "error") =>
                  /\ r.status = e[1].status
                  /\ ~r.found
           /\ r.found =>
                  /\ Len(e) = 1
                  /\ e[1].kind = "row"
                  /\ r.row = e[1].row
                  /\ r.status = OkStatus
           /\ (Len(e) >= 2 /\ e[1].kind = "row") =>
                  r = [status |-> [code |-> "INTERNAL",
                                   message |-> TwoRowsMessage],
                       found |-> FALSE, row |-> EmptyRow]

\* The reader yields the row asked for and then fails: ReadRow returns the
\* internal error, not the row and not the reader's status.
ReadRowSingleTerminalResultWitness ==
    /\ op = "ReadRow" /\ pc = "done"
    /\ read_row.row_key = 1
    /\ read_row.elements = <<RowElement(1), ErrorElement("UNAVAILABLE")>>
    /\ read_row.result.status.code = "INTERNAL"
    /\ ~read_row.result.found

\* C23: a generated default stub method makes its transport call on the
\* context its caller supplied, so that the deadline the caller set is the
\* deadline of the attempt, for a streaming-read method as for a unary one.
StubCallOnCallerContext ==
    stub_call.method # 0 =>
        /\ generated.cc[stub_call.method].context = "client_context"
        /\ stub_call.transport_deadline = stub_call.deadline

====
